---- MODULE Spec2Model ----
(***************************************************************************)
(* A model of the noms FileStore (chunks/file_store.go, refMap variant)    *)
(* and of the compoundBlob reader (types/compound_blob.go).                *)
(*                                                                         *)
(* Files are modelled with two views: the page cache (what every open      *)
(* handle reads and writes) and the disk (what survives a crash).  Sync    *)
(* copies the cache view to the disk view.                                 *)
(***************************************************************************)
EXTENDS Integers, Sequences, FiniteSets, TLC

VARIABLES
    cache,      \* [chunks, refMap, root]: file contents as seen through the OS
    disk,       \* [chunks, refMap, root]: file contents that survive a crash
    fs,         \* the FileStore value: [rm, pos] (index map, chunkFile offset)
    writers,    \* fileChunkWriter per slot
    rd,         \* the reader returned by the last successful Get, or NoReader
    procs,      \* per process: the UpdateRoot / Root call in progress
    hist,       \* what the last completed operation was and returned
    blob,       \* the compoundBlob being read: its tree and its leaf lengths
    trav,       \* per Seek: the goroutines and channels of its getLeaves
    cbr,        \* the compoundBlobReader
    rhist       \* what the Read calls have returned so far

storeVars == <<cache, disk, fs, writers, rd, procs, hist>>
readerVars == <<blob, trav, cbr, rhist>>
vars == <<cache, disk, fs, writers, rd, procs, hist, blob, trav, cbr, rhist>>

(***************************************************************************)
(* Bounds.                                                                 *)
(***************************************************************************)
MaxByte == 2        \* chunk bytes are drawn from 1..MaxByte
MaxLen == 2         \* at most MaxLen bytes are written through one writer
MaxWriters == 2     \* writer slots
MaxRef == 2         \* root Refs are drawn from 0..MaxRef (0 is the zero Ref)
MaxCrashes == 1     \* crashes in one behaviour
MaxNodes == 4       \* nodes below the root compound of a blob tree
MaxReadNodes == 2   \* the same, for the trees whose leaf lengths vary
MaxSeekNodes == 2   \* the same, for the trees whose reader is sought
MaxDrainNodes == 3  \* the same, for the trees read to the end under fairness
MaxFlat == 5        \* children of the root of a tree of leaves only
MaxLeafLen == 3     \* bytes in a leaf
MaxBuf == 2         \* length of the buffer handed to Read
MaxSeeks == 2       \* Seek calls on one reader, the one of the first Read included

LenWidth == 8       \* binary.Write of an int64: 8 bytes, little endian

Bytes == 1..MaxByte
Refs == 0..MaxRef
ZeroRef == 0
NoFile == <<"nofile">>    \* the content of a file that does not exist
NoRef == -1               \* no Ref (a panic of MustParse, a value not yet set)

(***************************************************************************)
(* Pure helpers.                                                           *)
(***************************************************************************)
\* binary.Write(w, binary.LittleEndian, int64(n)): LenWidth bytes, low byte first
RECURSIVE LittleEndian(_, _)
LittleEndian(n, width) ==
    IF width = 0 THEN <<>> ELSE <<n % 256>> \o LittleEndian(n \div 256, width - 1)
EncodeLE(n) == LittleEndian(n, LenWidth)

\* binary.Read(r, binary.LittleEndian, &l) over the bytes actually read; a
\* value with a non-zero byte above the third is larger than any file here and
\* is represented by Huge
Huge == 16777216
DecodeLE(s) ==
    IF \E k \in DOMAIN s : k > 3 /\ s[k] # 0 THEN Huge
    ELSE (IF Len(s) >= 1 THEN s[1] ELSE 0)
         + 256 * (IF Len(s) >= 2 THEN s[2] ELSE 0)
         + 65536 * (IF Len(s) >= 3 THEN s[3] ELSE 0)

\* ref.FromHash(h): the digest of the bytes hashed so far.  SHA-1 is modelled
\* as a collision-free function (bijective numeration of the byte string),
\* never the zero digest.
RECURSIVE HashNum(_)
HashNum(b) == IF b = <<>> THEN 0
              ELSE HashNum(SubSeq(b, 1, Len(b) - 1)) * MaxByte + b[Len(b)]
FromHash(b) == HashNum(b) + 1

HexDigits == <<"0", "1", "2", "3", "4", "5", "6", "7",
               "8", "9", "a", "b", "c", "d", "e", "f">>
HexValue(c) == CHOOSE v \in 0..15 : HexDigits[v + 1] = c

\* Ref.String(): "sha1-" followed by the hex digits of the digest
RefString(r) == <<"sha1-", HexDigits[((r \div 16) % 16) + 1], HexDigits[(r % 16) + 1]>>

\* ref.MustParse(s): panics unless s is "sha1-" and the hex digits
ParseOk(s) == /\ Len(s) = 3
              /\ s[1] = "sha1-"
              /\ \E v \in 0..15 : HexDigits[v + 1] = s[2]
              /\ \E v \in 0..15 : HexDigits[v + 1] = s[3]
MustParse(s) == IF ParseOk(s) THEN 16 * HexValue(s[2]) + HexValue(s[3]) ELSE NoRef

\* readRef(file) applied to everything ioutil.ReadAll returned
readRef(s) == IF Len(s) = 0 THEN ZeroRef ELSE MustParse(s)

\* os.File.Write at offset off: a gap between the end and off reads as zeros
Zero == "\\0"
WriteAt(content, off, data) ==
    LET n == IF off + Len(data) > Len(content) THEN off + Len(data) ELSE Len(content)
    IN [k \in 1..n |-> IF k > off /\ k <= off + Len(data) THEN data[k - off]
                       ELSE IF k <= Len(content) THEN content[k]
                       ELSE Zero]

\* os.File.Read of up to n bytes at offset pos
ReadAt(content, pos, n) ==
    IF pos >= Len(content) THEN <<>>
    ELSE SubSeq(content, pos + 1, IF pos + n > Len(content) THEN Len(content) ELSE pos + n)


(***************************************************************************)
(* The FileStore: index, chunks file, writers, Get.                        *)
(***************************************************************************)
Procs == {1, 2}
Writers == 1..MaxWriters

\* every byte string a writer can hold, and the digests Get is asked for
RECURSIVE SeqsUpTo(_)
SeqsUpTo(n) == IF n = 0 THEN {<<>>}
               ELSE LET S == SeqsUpTo(n - 1)
                    IN S \cup {Append(s, b) : s \in {t \in S : Len(t) = n - 1}, b \in Bytes}
Contents == SeqsUpTo(MaxLen)
Digests == {FromHash(b) : b \in Contents}

\* an entry of the refMap file: the digest (one unit, written as it is) and
\* the offset as an int64, little endian
EntryWidth == 1 + LenWidth

\* FileStore.readRefMap: (digest, offset) pairs until a read fails
RECURSIVE readRefMap(_, _)
readRefMap(file, m) ==
    IF Len(file) < EntryWidth THEN m
    ELSE LET s == file[1]
             i == DecodeLE(SubSeq(file, 2, EntryWidth))
         IN readRefMap(SubSeq(file, EntryWidth + 1, Len(file)),
                       [d \in DOMAIN m \cup {s} |-> IF d = s THEN i ELSE m[d]])

EmptyMap == [d \in {} |-> 0]

\* mutant of NewFileStore: the refMap log is not replayed
NewFileStore_NoReplay(c) == [rm |-> EmptyMap, pos |-> 0]

\* NewFileStore: both files are opened with O_CREATE, the refMap is replayed
NewFileStore(c) == [rm |-> readRefMap(c.refMap, EmptyMap), pos |-> 0]

\* FileStore.appendRefMap: what is appended to the refMap file
refMapEntry(r, i) == <<r>> \o EncodeLE(i)

\* a fileChunkWriter: buffer and hash, and for a Close that runs step by step
\* the statement it is at and its local i
NoWriter == [state |-> "none", bufNil |-> FALSE, buffer |-> <<>>, hashed |-> <<>>,
             pc |-> "idle", i |-> 0]
\* per writer: whether Close or Ref has returned, the bytes it held then, the
\* Ref its first Ref() returned and the bytes it held at that call
NoFin == [done |-> FALSE, ref |-> NoRef, bytes |-> <<>>, refBytes |-> <<>>]
NoReader == [open |-> FALSE, ref |-> NoRef, n |-> 0, got |-> <<>>, eof |-> TRUE]

\* the part of the store a caller can observe, for before/after comparisons
Snapshot == [chunks |-> cache.chunks, refMap |-> cache.refMap, root |-> cache.root,
             rm |-> fs.rm, pos |-> fs.pos]

\* FileStore.Put
Put(w) ==
    /\ writers[w].state = "none"
    /\ writers' = [writers EXCEPT ![w] = [state |-> "live", bufNil |-> FALSE,
                                          buffer |-> <<>>, hashed |-> <<>>,
                                          pc |-> "idle", i |-> 0]]
    /\ hist' = [hist EXCEPT !.op = "Put", !.w = w, !.res = "ok", !.val = 0, !.pre = Snapshot,
                            !.was = FALSE]
    /\ UNCHANGED <<cache, disk, fs, rd, procs>>
    /\ UNCHANGED readerVars

\* fileChunkWriter.Write: d.Chk.NotNil(w.buffer), then the MultiWriter feeds
\* the buffer and the hash
Write(w, data) ==
    /\ writers[w].state = "live"
    /\ Len(writers[w].hashed) + Len(data) <= MaxLen
    /\ IF writers[w].bufNil
       THEN /\ writers' = writers
            /\ hist' = [hist EXCEPT !.op = "Write", !.w = w, !.res = "misuse", !.val = 0,
                                    !.pre = Snapshot, !.was = hist.fin[w].done]
       ELSE /\ writers' = [writers EXCEPT ![w].buffer = @ \o data,
                                          ![w].hashed = @ \o data]
            /\ hist' = [hist EXCEPT !.op = "Write", !.w = w, !.res = "ok", !.val = Len(data),
                                    !.pre = Snapshot, !.was = hist.fin[w].done]
    /\ UNCHANGED <<cache, disk, fs, rd, procs>>
    /\ UNCHANGED readerVars

\* mutant of CloseEffect: the index is not consulted, every Close appends
CloseEffect_NoDedup(w) ==
    LET wr == writers[w]
        r == FromHash(wr.hashed)
        i == Len(cache.chunks)
        rec == EncodeLE(Len(wr.buffer)) \o wr.buffer
    IN IF wr.bufNil
       THEN [cache |-> cache, fs |-> fs, writers |-> writers]
       ELSE [cache |-> [cache EXCEPT !.chunks = @ \o rec,
                                     !.refMap = @ \o refMapEntry(r, i)],
             fs |-> [rm |-> [d \in DOMAIN fs.rm \cup {r} |->
                                IF d = r THEN i ELSE fs.rm[d]],
                     pos |-> i + Len(rec)],
             writers |-> [writers EXCEPT ![w].bufNil = TRUE, ![w].buffer = <<>>]]

\* mutant of CloseEffect: the offset recorded is taken after the length was
\* written, so it points at the payload
CloseEffect_OffsetOfPayload(w) ==
    LET wr == writers[w]
        r == FromHash(wr.hashed)
        i == Len(cache.chunks) + LenWidth
        rec == EncodeLE(Len(wr.buffer)) \o wr.buffer
    IN IF wr.bufNil \/ r \in DOMAIN fs.rm
       THEN [cache |-> cache, fs |-> fs, writers |-> writers]
       ELSE [cache |-> [cache EXCEPT !.chunks = @ \o rec,
                                     !.refMap = @ \o refMapEntry(r, i)],
             fs |-> [rm |-> [d \in DOMAIN fs.rm \cup {r} |->
                                IF d = r THEN i ELSE fs.rm[d]],
                     pos |-> Len(cache.chunks) + Len(rec)],
             writers |-> [writers EXCEPT ![w].bufNil = TRUE, ![w].buffer = <<>>]]

\* the body of fileChunkWriter.Close: the store and writer after it ran
CloseEffect(w) ==
    LET wr == writers[w]
        r == FromHash(wr.hashed)
        i == Len(cache.chunks)                      \* chunkFile.Seek(0, 2)
        rec == EncodeLE(Len(wr.buffer)) \o wr.buffer  \* length, then io.Copy
    IN IF wr.bufNil \/ r \in DOMAIN fs.rm
       THEN [cache |-> cache, fs |-> fs, writers |-> writers]
       ELSE [cache |-> [cache EXCEPT !.chunks = @ \o rec,
                                     !.refMap = @ \o refMapEntry(r, i)],
             fs |-> [rm |-> [d \in DOMAIN fs.rm \cup {r} |->
                                IF d = r THEN i ELSE fs.rm[d]],
                     pos |-> i + Len(rec)],
             writers |-> [writers EXCEPT ![w].bufNil = TRUE, ![w].buffer = <<>>]]

\* fileChunkWriter.Close
Close(w) ==
    /\ writers[w].state = "live"
    /\ LET e == CloseEffect(w)
       IN /\ cache' = e.cache
          /\ fs' = e.fs
          /\ writers' = e.writers
    /\ hist' = [hist EXCEPT !.op = "Close", !.w = w, !.res = "ok", !.val = 0, !.pre = Snapshot,
                            !.was = hist.fin[w].done,
                            !.fin[w] = [done |-> TRUE, ref |-> @.ref,
                                        bytes |-> IF @.done THEN @.bytes
                                                  ELSE writers[w].hashed,
                                        refBytes |-> @.refBytes]]
    /\ UNCHANGED <<disk, rd, procs>>
    /\ UNCHANGED readerVars

\* fileChunkWriter.Ref: Close, then ref.FromHash(w.hash)
Ref(w) ==
    /\ writers[w].state = "live"
    /\ LET e == CloseEffect(w)
       IN /\ cache' = e.cache
          /\ fs' = e.fs
          /\ writers' = e.writers
    /\ hist' = [hist EXCEPT !.op = "Ref", !.w = w, !.res = "ok", !.val = FromHash(writers[w].hashed),
                            !.pre = Snapshot,
                            !.was = hist.fin[w].done,
                            !.fin[w] = [done |-> TRUE,
                                        ref |-> IF @.ref = NoRef
                                                THEN FromHash(writers[w].hashed)
                                                ELSE @.ref,
                                        bytes |-> IF @.done THEN @.bytes
                                                  ELSE writers[w].hashed,
                                        refBytes |-> IF @.ref = NoRef
                                                     THEN writers[w].hashed
                                                     ELSE @.refBytes]]
    /\ UNCHANGED <<disk, rd, procs>>
    /\ UNCHANGED readerVars

(***************************************************************************)
(* fileChunkWriter.Close, one step per statement that touches the store,   *)
(* for callers that run at the same time.  No lock is taken.               *)
(***************************************************************************)
\* lines 164-171: w.buffer == nil, and the index lookup
CloseCheck(w) ==
    /\ writers[w].state = "live"
    /\ writers[w].pc = "idle"
    /\ writers' = IF writers[w].bufNil \/ FromHash(writers[w].hashed) \in DOMAIN fs.rm
                  THEN writers
                  ELSE [writers EXCEPT ![w].pc = "seek"]
    /\ UNCHANGED <<cache, disk, fs, rd, procs, hist>>
    /\ UNCHANGED readerVars

\* line 173: i, err := w.fs.chunkFile.Seek(0, 2)
CloseSeek(w) ==
    /\ writers[w].pc = "seek"
    /\ writers' = [writers EXCEPT ![w].pc = "len", ![w].i = Len(cache.chunks)]
    /\ fs' = [fs EXCEPT !.pos = Len(cache.chunks)]
    /\ UNCHANGED <<cache, disk, rd, procs, hist>>
    /\ UNCHANGED readerVars

\* lines 176-177: binary.Write of totalBytes; the file is open with O_APPEND
CloseWriteLen(w) ==
    /\ writers[w].pc = "len"
    /\ cache' = [cache EXCEPT !.chunks = @ \o EncodeLE(Len(writers[w].buffer))]
    /\ fs' = [fs EXCEPT !.pos = Len(cache.chunks) + LenWidth]
    /\ writers' = [writers EXCEPT ![w].pc = "copy"]
    /\ UNCHANGED <<disk, rd, procs, hist>>
    /\ UNCHANGED readerVars

\* line 178: io.Copy(w.fs.chunkFile, w.buffer)
CloseCopy(w) ==
    /\ writers[w].pc = "copy"
    /\ cache' = [cache EXCEPT !.chunks = @ \o writers[w].buffer]
    /\ fs' = [fs EXCEPT !.pos = Len(cache.chunks) + Len(writers[w].buffer)]
    /\ writers' = [writers EXCEPT ![w].pc = "insert", ![w].buffer = <<>>]
    /\ UNCHANGED <<disk, rd, procs, hist>>
    /\ UNCHANGED readerVars

\* lines 181-183: w.fs.appendRefMap(r, i); w.buffer = nil
CloseInsert(w) ==
    /\ writers[w].pc = "insert"
    /\ LET r == FromHash(writers[w].hashed)
           i == writers[w].i
       IN /\ cache' = [cache EXCEPT !.refMap = @ \o refMapEntry(r, i)]
          /\ fs' = [fs EXCEPT !.rm = [d \in DOMAIN fs.rm \cup {r} |->
                                         IF d = r THEN i ELSE fs.rm[d]]]
    /\ writers' = [writers EXCEPT ![w].pc = "idle", ![w].bufNil = TRUE]
    /\ UNCHANGED <<disk, rd, procs, hist>>
    /\ UNCHANGED readerVars

\* mutant of GetMiss: the handle is positioned (at the zero value of the
\* missing map entry) before the lookup result is tested
GetMiss_SeekFirst(r) == [fs EXCEPT !.pos = 0]

\* FileStore.Get, lines 117-120: the store after a lookup that found nothing
GetMiss(r) == fs

\* FileStore.Get: index lookup, Seek, read the length, LimitReader
Get(r) ==
    /\ IF r \notin DOMAIN fs.rm
       THEN /\ rd' = NoReader
            /\ fs' = GetMiss(r)
            /\ hist' = [hist EXCEPT !.op = "Get", !.w = r, !.res = "absent", !.val = 0,
                                    !.pre = Snapshot, !.was = FALSE]
       ELSE LET i == fs.rm[r]
                hdr == ReadAt(cache.chunks, i, LenWidth)
                l == IF Len(hdr) = LenWidth THEN DecodeLE(hdr) ELSE 0
            IN /\ fs' = [fs EXCEPT !.pos = i + Len(hdr)]
               /\ rd' = [open |-> TRUE, ref |-> r, n |-> l, got |-> <<>>, eof |-> FALSE]
               /\ hist' = [hist EXCEPT !.op = "Get", !.w = r, !.res = "reader", !.val = 0,
                                       !.pre = Snapshot, !.was = FALSE]
    /\ UNCHANGED <<cache, disk, writers, procs>>
    /\ UNCHANGED readerVars

\* FileStore.Get of a stored chunk by another goroutine, whose reader is not
\* followed: the Seek and the length read move the one chunkFile handle
GetElsewhere(r) ==
    /\ r \in DOMAIN fs.rm
    /\ fs' = [fs EXCEPT !.pos = fs.rm[r] + Len(ReadAt(cache.chunks, fs.rm[r], LenWidth))]
    /\ UNCHANGED <<cache, disk, writers, rd, procs, hist>>
    /\ UNCHANGED readerVars

\* io.LimitedReader.Read over the shared chunkFile handle, buffer of k bytes
GetRead(k) ==
    /\ rd.open
    /\ ~rd.eof
    /\ LET want == IF k < rd.n THEN k ELSE rd.n
           data == IF rd.n <= 0 THEN <<>> ELSE ReadAt(cache.chunks, fs.pos, want)
       IN /\ rd' = [rd EXCEPT !.n = @ - Len(data), !.got = @ \o data,
                              !.eof = (Len(data) = 0)]
          /\ fs' = [fs EXCEPT !.pos = @ + Len(data)]
    /\ hist' = [hist EXCEPT !.op = "GetRead", !.w = 0, !.res = "ok", !.val = 0, !.pre = Snapshot,
                            !.was = FALSE]
    /\ UNCHANGED <<cache, disk, writers, procs>>
    /\ UNCHANGED readerVars


(***************************************************************************)
(* Reading the files back.                                                 *)
(***************************************************************************)
\* the byte string with digest d (the hash is collision free)
BytesOf(d) == CHOOSE b \in SeqsUpTo(MaxLen + 1) : FromHash(b) = d

\* the record [length | bytes] whose length field starts at offset i
LengthAt(file, i) == DecodeLE(SubSeq(file, i + 1, i + LenWidth))
PayloadAt(file, i) == SubSeq(file, i + LenWidth + 1, i + LenWidth + LengthAt(file, i))
IsRecordAt(file, i) == /\ i >= 0
                       /\ i + LenWidth <= Len(file)
                       /\ i + LenWidth + LengthAt(file, i) <= Len(file)

\* the payloads of the records of a chunks file, in file order
RECURSIVE Payloads(_, _)
Payloads(file, i) ==
    IF ~IsRecordAt(file, i) THEN <<>>
    ELSE <<PayloadAt(file, i)>> \o Payloads(file, i + LenWidth + LengthAt(file, i))

Count(seq, x) == Cardinality({k \in DOMAIN seq : seq[k] = x})

\* the digests logged in a refMap file, in file order
LoggedDigests(file) ==
    [k \in 1..(Len(file) \div EntryWidth) |-> file[EntryWidth * (k - 1) + 1]]

\* Get(d) would find d and return the bytes that hash to d
Retrievable(d) ==
    /\ d \in DOMAIN fs.rm
    /\ IsRecordAt(cache.chunks, fs.rm[d])
    /\ PayloadAt(cache.chunks, fs.rm[d]) = BytesOf(d)

(***************************************************************************)
(* Root and UpdateRoot, one step per system call.                          *)
(***************************************************************************)
IdleProc == [pc |-> "idle", new |-> ZeroRef, last |-> ZeroRef, fdpos |-> 0,
             existing |-> ZeroRef, lock |-> "none", before |-> ZeroRef,
             deps |-> {}, ret |-> FALSE, called |-> FALSE,
             allowed |-> {}, torn |-> FALSE]

\* what a Root() call that runs alone returns for this root file content
RootValue(content) == IF content = NoFile THEN ZeroRef ELSE readRef(content)

\* ioutil.ReadAll(file) from the handle's offset
ReadAll(content, pos) == SubSeq(content, pos + 1, Len(content))

\* syscall.Flock: LOCK_EX needs no other holder, LOCK_SH no exclusive holder
CanLock(p, mode) ==
    \A q \in Procs \ {p} :
        IF mode = "ex" THEN procs[q].lock = "none" ELSE procs[q].lock # "ex"

\* UpdateRoot, line 97: os.OpenFile(f.root, O_RDWR|O_CREATE)
URCall(p, new, last) ==
    /\ procs[p].pc = "idle"
    /\ procs' = [procs EXCEPT ![p] = [@ EXCEPT !.pc = "ur_lock", !.new = new,
                                      !.last = last, !.fdpos = 0,
                                      !.before = RootValue(cache.root),
                                      !.deps = {d \in DOMAIN fs.rm : Retrievable(d)},
                                      !.called = TRUE]]
    /\ cache' = [cache EXCEPT !.root = IF @ = NoFile THEN <<>> ELSE @]
    /\ UNCHANGED <<disk, fs, writers, rd, hist>>
    /\ UNCHANGED readerVars

\* mutant of URLock: the call goes on without holding the lock
URLock_NoWait(p) ==
    /\ procs[p].pc = "ur_lock"
    /\ procs' = [procs EXCEPT ![p].pc = "ur_read"]
    /\ UNCHANGED <<cache, disk, fs, writers, rd, hist>>
    /\ UNCHANGED readerVars

\* UpdateRoot, line 99: syscall.Flock(fd, LOCK_EX)
URLock(p) ==
    /\ procs[p].pc = "ur_lock"
    /\ CanLock(p, "ex")
    /\ procs' = [procs EXCEPT ![p].pc = "ur_read", ![p].lock = "ex"]
    /\ UNCHANGED <<cache, disk, fs, writers, rd, hist>>
    /\ UNCHANGED readerVars

\* UpdateRoot, lines 102-105: readRef and the comparison with last; a panic of
\* MustParse unwinds through the deferred file.Close()
URRead(p) ==
    /\ procs[p].pc = "ur_read"
    /\ LET existing == readRef(ReadAll(cache.root, procs[p].fdpos))
       IN IF existing = NoRef
          THEN /\ procs' = [procs EXCEPT ![p] = [IdleProc EXCEPT !.called = TRUE]]
               /\ hist' = [hist EXCEPT !.op = "UpdateRoot", !.res = "panic",
                                       !.p = p, !.val = 0]
          ELSE /\ procs' = [procs EXCEPT
                              ![p].existing = existing,
                              ![p].fdpos = Len(cache.root),
                              ![p].ret = (existing = procs[p].last),
                              ![p].pc = IF existing = procs[p].last
                                        THEN "ur_seek" ELSE "ur_ret"]
               /\ hist' = hist
    /\ UNCHANGED <<cache, disk, fs, writers, rd>>
    /\ UNCHANGED readerVars

\* mutant of URSeek: the handle is left where readRef stopped
URSeek_NoRewind(p) ==
    /\ procs[p].pc = "ur_seek"
    /\ procs' = [procs EXCEPT ![p].pc = "ur_trunc"]
    /\ UNCHANGED <<cache, disk, fs, writers, rd, hist>>
    /\ UNCHANGED readerVars

\* UpdateRoot, line 107: file.Seek(0, 0)
URSeek(p) ==
    /\ procs[p].pc = "ur_seek"
    /\ procs' = [procs EXCEPT ![p].pc = "ur_trunc", ![p].fdpos = 0]
    /\ UNCHANGED <<cache, disk, fs, writers, rd, hist>>
    /\ UNCHANGED readerVars

\* UpdateRoot, line 108: file.Truncate(0)
URTruncate(p) ==
    /\ procs[p].pc = "ur_trunc"
    /\ procs' = [procs EXCEPT ![p].pc = "ur_write"]
    /\ cache' = [cache EXCEPT !.root = <<>>]
    /\ hist' = [hist EXCEPT !.rootDeps = {}]
    /\ UNCHANGED <<disk, fs, writers, rd>>
    /\ UNCHANGED readerVars

\* UpdateRoot, line 109: file.Write([]byte(current.String()))
URWrite(p) ==
    /\ procs[p].pc = "ur_write"
    /\ procs' = [q \in Procs |->
                    IF q = p
                    THEN [procs[p] EXCEPT !.pc = "ur_sync1",
                                          !.fdpos = @ + Len(RefString(procs[p].new))]
                    ELSE IF procs[q].pc \in {"r_lock", "r_read"}
                    THEN [procs[q] EXCEPT !.allowed = @ \cup {procs[p].new}]
                    ELSE procs[q]]
    /\ cache' = [cache EXCEPT !.root = WriteAt(@, procs[p].fdpos, RefString(procs[p].new))]
    /\ hist' = [hist EXCEPT !.rootDeps = procs[p].deps, !.logical = procs[p].new]
    /\ UNCHANGED <<disk, fs, writers, rd>>
    /\ UNCHANGED readerVars

\* UpdateRoot, line 111: f.chunkFile.Sync()
URSyncChunks(p) ==
    /\ procs[p].pc = "ur_sync1"
    /\ procs' = [procs EXCEPT ![p].pc = "ur_sync2"]
    /\ disk' = [disk EXCEPT !.chunks = cache.chunks]
    /\ UNCHANGED <<cache, fs, writers, rd, hist>>
    /\ UNCHANGED readerVars

\* UpdateRoot, line 112: f.refMapFile.Sync()
URSyncRefMap(p) ==
    /\ procs[p].pc = "ur_sync2"
    /\ procs' = [procs EXCEPT ![p].pc = "ur_ret"]
    /\ disk' = [disk EXCEPT !.refMap = cache.refMap]
    /\ UNCHANGED <<cache, fs, writers, rd, hist>>
    /\ UNCHANGED readerVars

\* UpdateRoot returns; the deferred file.Close() drops the lock.  The frame
\* keeps the arguments, the root seen at the call and the result.
URReturn(p) ==
    /\ procs[p].pc = "ur_ret"
    /\ procs' = [procs EXCEPT ![p] = [IdleProc EXCEPT !.called = TRUE,
                                                      !.new = procs[p].new,
                                                      !.last = procs[p].last,
                                                      !.before = procs[p].before,
                                                      !.ret = procs[p].ret]]
    /\ hist' = [hist EXCEPT !.op = "UpdateRoot", !.p = p,
                            !.res = IF procs[p].ret THEN "true" ELSE "false",
                            !.val = 0,
                            !.committed = IF procs[p].ret
                                          THEN [root |-> procs[p].new, deps |-> procs[p].deps]
                                          ELSE @]
    /\ UNCHANGED <<cache, disk, fs, writers, rd>>
    /\ UNCHANGED readerVars

\* Root, lines 84-88: os.Open; a missing file is the zero Ref
RootCall(p) ==
    /\ procs[p].pc = "idle"
    /\ IF cache.root = NoFile
       THEN /\ procs' = procs
            /\ hist' = [hist EXCEPT !.op = "Root", !.p = p, !.res = "ok", !.val = ZeroRef,
                                    !.allowed = {hist.logical}, !.torn = FALSE]
       ELSE /\ procs' = [procs EXCEPT ![p].pc = "r_lock", ![p].fdpos = 0,
                                      ![p].allowed = {hist.logical},
                                      ![p].torn = \E q \in Procs : procs[q].pc = "ur_write"]
            /\ hist' = hist
    /\ UNCHANGED <<cache, disk, fs, writers, rd>>
    /\ UNCHANGED readerVars

\* mutant of RootLock: the read goes on without the shared lock
RootLock_NoWait(p) ==
    /\ procs[p].pc = "r_lock"
    /\ procs' = [procs EXCEPT ![p].pc = "r_read"]
    /\ UNCHANGED <<cache, disk, fs, writers, rd, hist>>
    /\ UNCHANGED readerVars

\* Root, line 90: syscall.Flock(fd, LOCK_SH)
RootLock(p) ==
    /\ procs[p].pc = "r_lock"
    /\ CanLock(p, "sh")
    /\ procs' = [procs EXCEPT ![p].pc = "r_read", ![p].lock = "sh"]
    /\ UNCHANGED <<cache, disk, fs, writers, rd, hist>>
    /\ UNCHANGED readerVars

\* Root, lines 91-93: readRef, then the deferred file.Close()
RootRead(p) ==
    /\ procs[p].pc = "r_read"
    /\ LET v == readRef(ReadAll(cache.root, procs[p].fdpos))
       IN hist' = [hist EXCEPT !.op = "Root", !.p = p,
                               !.res = IF v = NoRef THEN "panic" ELSE "ok",
                               !.val = v,
                               !.allowed = procs[p].allowed, !.torn = procs[p].torn]
    /\ procs' = [procs EXCEPT ![p].pc = "idle", ![p].lock = "none", ![p].fdpos = 0,
                              ![p].allowed = {}, ![p].torn = FALSE]
    /\ UNCHANGED <<cache, disk, fs, writers, rd>>
    /\ UNCHANGED readerVars

\* an empty directory, and the history before any call
EmptyDir == [chunks |-> <<>>, refMap |-> <<>>, root |-> NoFile]
NoCommit == [root |-> NoRef, deps |-> {}]

InitHist == [op |-> "none", w |-> 0, p |-> 0, res |-> "ok", val |-> 0, was |-> FALSE,
             pre |-> [chunks |-> <<>>, refMap |-> <<>>, root |-> NoFile,
                      rm |-> EmptyMap, pos |-> 0],
             fin |-> [w \in Writers |-> NoFin],
             rootDeps |-> {}, diskRootDeps |-> {}, committed |-> NoCommit,
             init |-> ZeroRef, crashes |-> 0,
             logical |-> ZeroRef, allowed |-> {}, torn |-> FALSE]

(***************************************************************************)
(* The operating system: write-back of dirty pages, and a crash followed   *)
(* by NewFileStore on the same directory.                                  *)
(***************************************************************************)
Files == {"chunks", "refMap", "root"}

Writeback(f) ==
    /\ disk[f] # cache[f]
    /\ disk' = [disk EXCEPT ![f] = cache[f]]
    /\ hist' = IF f = "root" THEN [hist EXCEPT !.diskRootDeps = hist.rootDeps] ELSE hist
    /\ UNCHANGED <<cache, fs, writers, rd, procs>>
    /\ UNCHANGED readerVars

Crash ==
    /\ cache' = disk
    /\ fs' = NewFileStore(disk)
    /\ writers' = [w \in Writers |-> NoWriter]
    /\ rd' = NoReader
    /\ procs' = [p \in Procs |-> IdleProc]
    /\ hist' = [hist EXCEPT !.op = "Crash", !.res = "ok", !.val = 0, !.was = FALSE,
                            !.w = 0, !.p = 0, !.pre = InitHist.pre,
                            !.fin = [w \in Writers |-> NoFin],
                            !.rootDeps = hist.diskRootDeps,
                            !.logical = RootValue(disk.root),
                            !.crashes = @ + 1]
    /\ UNCHANGED disk
    /\ UNCHANGED readerVars

\* The process ends with no call in progress and a new one opens the store:
\* NewFileStore on the same directory.  Nothing written is lost.
Reopen ==
    /\ \A w \in Writers : writers[w].pc = "idle"
    /\ fs' = NewFileStore(cache)
    /\ writers' = [w \in Writers |-> NoWriter]
    /\ rd' = NoReader
    /\ procs' = [p \in Procs |-> IdleProc]
    /\ hist' = [hist EXCEPT !.op = "Reopen", !.res = "ok", !.val = 0, !.was = FALSE,
                            !.w = 0, !.p = 0, !.pre = Snapshot,
                            !.fin = [w \in Writers |-> NoFin],
                            !.crashes = @ + 1]
    /\ UNCHANGED <<cache, disk>>
    /\ UNCHANGED readerVars

(***************************************************************************)
(* Blob trees.  A node is the sequence of its children; a node without     *)
(* children is a blobLeaf.  A path is the sequence of child indices from   *)
(* the root compoundBlob.                                                  *)
(***************************************************************************)
RECURSIVE ForestsOf(_)
ForestsOf(n) ==
    IF n = 0 THEN {<<>>}
    ELSE UNION {{<<t>> \o f : t \in ForestsOf(k - 1), f \in ForestsOf(n - k)} : k \in 1..n}

ShapesUpTo(n) == UNION {ForestsOf(m) : m \in 1..n}

RECURSIVE Sub(_, _)
Sub(t, p) == IF p = <<>> THEN t ELSE Sub(t[Head(p)], Tail(p))

\* the type switch on f.Deref(b.cs): blobLeaf or compoundBlob
IsLeaf(t, p) == p # <<>> /\ Sub(t, p) = <<>>
NumKids(t, p) == Len(Sub(t, p))

RECURSIVE PathsUnder(_, _)
PathsUnder(t, p) ==
    {p} \cup UNION {PathsUnder(t, Append(p, i)) : i \in 1..NumKids(t, p)}

\* the leaves below p, depth first, left to right
RECURSIVE LeavesUnder(_, _), LeavesFrom(_, _, _)
LeavesUnder(t, p) == IF IsLeaf(t, p) THEN <<p>> ELSE LeavesFrom(t, p, 1)
LeavesFrom(t, p, i) ==
    IF i > NumKids(t, p) THEN <<>>
    ELSE LeavesUnder(t, Append(p, i)) \o LeavesFrom(t, p, i + 1)

AllLeaves == LeavesUnder(blob.shape, <<>>)
DfsIndex(p) == CHOOSE i \in DOMAIN AllLeaves : AllLeaves[i] = p

\* the bytes of a leaf: every byte of the blob is different
LeafData(p) == [k \in 1..blob.lens[p] |-> 10 * DfsIndex(p) + k]

RECURSIVE Concat(_)
Concat(leaves) == IF leaves = <<>> THEN <<>>
                  ELSE LeafData(Head(leaves)) \o Concat(Tail(leaves))
AllBytes == Concat(AllLeaves)

IsPrefix(a, b) == Len(a) <= Len(b) /\ a = SubSeq(b, 1, Len(a))

(***************************************************************************)
(* getLeaves.  Per node p of the tree: the channel ch its leaves are sent  *)
(* on (for the root, cbr.leaves), and for a compound the channel in, the   *)
(* goroutine that fills in and the loop that drains it.                    *)
(***************************************************************************)
LeavesCap == 4      \* Seek: make(chan blobLeaf, 4); getLeaves hands cap(out) down

Gens == 1..MaxSeeks

NoNode == [task |-> "none", out |-> <<>>, outClosed |-> FALSE,
           inq |-> <<>>, inClosed |-> FALSE, next |-> 1,
           pc |-> "none", cur |-> 0, held |-> <<>>]

\* failed: the child whose Deref failed, <<>> (the root is never a child) if none
NoTrav == [started |-> FALSE, node |-> [p \in {} |-> NoNode], sent |-> <<>>,
           failed |-> <<>>]

\* no goroutine has panicked: the process is running
Alive == \A g \in Gens : trav[g].failed = <<>>

Node(g, p) == trav[g].node[p]

\* getLeaves entered for node p: in is made, the producer goroutine is started
\* and the caller goes on to range over in
WalkNode == [NoNode EXCEPT !.task = "walk", !.pc = "recvIn"]

\* the per-child goroutine, line 96: f.Deref(b.cs) returns, at any time
DerefDone(g, p) ==
    /\ Alive
    /\ trav[g].started
    /\ Node(g, p).task = "deref"
    /\ trav' = [trav EXCEPT ![g].node[p] =
                   IF IsLeaf(blob.shape, p) THEN [@ EXCEPT !.task = "leaf"]
                   ELSE [WalkNode EXCEPT !.out = Node(g, p).out]]
    /\ UNCHANGED <<blob, cbr, rhist>>
    /\ UNCHANGED storeVars

\* the per-child goroutine, line 96, when the chunk cannot be resolved: Deref
\* has no error result, the failure is a panic in this goroutine, which ends
\* the process with every goroutine in it
DerefFail(g, p) ==
    /\ Alive
    /\ trav[g].started
    /\ Node(g, p).task = "deref"
    /\ trav' = [trav EXCEPT ![g].failed = p, ![g].node[p].task = "panic"]
    /\ UNCHANGED <<blob, cbr, rhist>>
    /\ UNCHANGED storeVars

\* the per-child goroutine, line 99: ch <- cb
LeafSend(g, p) ==
    /\ Alive
    /\ trav[g].started
    /\ Node(g, p).task = "leaf"
    /\ Len(Node(g, p).out) < LeavesCap
    /\ trav' = [trav EXCEPT ![g].node[p].out = Append(@, p),
                            ![g].node[p].task = "leafsent"]
    /\ UNCHANGED <<blob, cbr, rhist>>
    /\ UNCHANGED storeVars

\* mutant of LeafClose: the goroutine returns without closing ch
LeafClose_Forgotten(g, p) ==
    /\ Alive
    /\ trav[g].started
    /\ Node(g, p).task = "leafsent"
    /\ trav' = [trav EXCEPT ![g].node[p].task = "done"]
    /\ UNCHANGED <<blob, cbr, rhist>>
    /\ UNCHANGED storeVars

\* the per-child goroutine, line 101: close(ch)
LeafClose(g, p) ==
    /\ Alive
    /\ trav[g].started
    /\ Node(g, p).task = "leafsent"
    /\ trav' = [trav EXCEPT ![g].node[p].outClosed = TRUE,
                            ![g].node[p].task = "done"]
    /\ UNCHANGED <<blob, cbr, rhist>>
    /\ UNCHANGED storeVars

\* the producer goroutine, lines 90-106: make ch, in <- ch, go func
ProdSend(g, p) ==
    /\ Alive
    /\ trav[g].started
    /\ Node(g, p).task = "walk"
    /\ Node(g, p).next <= NumKids(blob.shape, p)
    /\ Len(Node(g, p).inq) < LeavesCap
    /\ LET i == Node(g, p).next
       IN trav' = [trav EXCEPT ![g].node[p].inq = Append(@, i),
                               ![g].node[p].next = i + 1,
                               ![g].node[Append(p, i)].task = "deref"]
    /\ UNCHANGED <<blob, cbr, rhist>>
    /\ UNCHANGED storeVars

\* the producer goroutine, line 108: the deferred close(in)
ProdClose(g, p) ==
    /\ Alive
    /\ trav[g].started
    /\ Node(g, p).task = "walk"
    /\ Node(g, p).next > NumKids(blob.shape, p)
    /\ ~Node(g, p).inClosed
    /\ trav' = [trav EXCEPT ![g].node[p].inClosed = TRUE]
    /\ UNCHANGED <<blob, cbr, rhist>>
    /\ UNCHANGED storeVars

\* getLeaves, line 111: for ch := range in; line 119: close(out)
DrainRecvIn(g, p) ==
    /\ Alive
    /\ trav[g].started
    /\ Node(g, p).pc = "recvIn"
    /\ IF Node(g, p).inq # <<>>
       THEN trav' = [trav EXCEPT ![g].node[p].cur = Head(Node(g, p).inq),
                                 ![g].node[p].inq = Tail(@),
                                 ![g].node[p].pc = "recvCh"]
       ELSE /\ Node(g, p).inClosed
            /\ trav' = [trav EXCEPT ![g].node[p].outClosed = TRUE,
                                    ![g].node[p].pc = "closed",
                                    ![g].node[p].task = "done"]
    /\ UNCHANGED <<blob, cbr, rhist>>
    /\ UNCHANGED storeVars

\* mutant of DrainRecvCh: an empty child channel is taken for a closed one
DrainRecvCh_NoWait(g, p) ==
    /\ Alive
    /\ trav[g].started
    /\ Node(g, p).pc = "recvCh"
    /\ LET c == Append(p, Node(g, p).cur)
       IN IF Node(g, c).out # <<>>
          THEN trav' = [trav EXCEPT ![g].node[p].held = Head(Node(g, c).out),
                                    ![g].node[c].out = Tail(@),
                                    ![g].node[p].pc = "send"]
          ELSE trav' = [trav EXCEPT ![g].node[p].pc = "recvIn"]
    /\ UNCHANGED <<blob, cbr, rhist>>
    /\ UNCHANGED storeVars

\* getLeaves, line 112: for bl := range ch
DrainRecvCh(g, p) ==
    /\ Alive
    /\ trav[g].started
    /\ Node(g, p).pc = "recvCh"
    /\ LET c == Append(p, Node(g, p).cur)
       IN IF Node(g, c).out # <<>>
          THEN trav' = [trav EXCEPT ![g].node[p].held = Head(Node(g, c).out),
                                    ![g].node[c].out = Tail(@),
                                    ![g].node[p].pc = "send"]
          ELSE /\ Node(g, c).outClosed
               /\ trav' = [trav EXCEPT ![g].node[p].pc = "recvIn"]
    /\ UNCHANGED <<blob, cbr, rhist>>
    /\ UNCHANGED storeVars

\* getLeaves, line 114: out <- bl
DrainSend(g, p) ==
    /\ Alive
    /\ trav[g].started
    /\ Node(g, p).pc = "send"
    /\ Len(Node(g, p).out) < LeavesCap
    /\ trav' = [trav EXCEPT ![g].node[p].out = Append(@, Node(g, p).held),
                            ![g].node[p].pc = "recvCh",
                            ![g].sent = IF p = <<>> THEN Append(@, Node(g, p).held)
                                        ELSE @]
    /\ UNCHANGED <<blob, cbr, rhist>>
    /\ UNCHANGED storeVars

(***************************************************************************)
(* compoundBlobReader.                                                     *)
(***************************************************************************)
NoLeaf == [set |-> FALSE, path |-> <<>>, pos |-> 0]

\* a channel operation of some goroutine of getLeaves at node p of traversal g
ChanStep(g, p) ==
    \/ LeafSend(g, p) \/ LeafClose(g, p)
    \/ ProdSend(g, p) \/ ProdClose(g, p)
    \/ DrainRecvIn(g, p) \/ DrainRecvCh(g, p) \/ DrainSend(g, p)

\* a step of some goroutine of getLeaves at node p of traversal g
TravStep(g, p) == DerefDone(g, p) \/ ChanStep(g, p)

\* the Deref calls of traversal g that have started and not returned
Outstanding(g) == {p \in DOMAIN trav[g].node : Node(g, p).task = "deref"}

\* every goroutine of traversal g has returned: the getLeaves calls closed
\* their out, the producers closed their in, the per-child tasks closed ch
Terminated(g) ==
    \A p \in DOMAIN trav[g].node :
        /\ Node(g, p).task = "done"
        /\ Node(g, p).outClosed
        /\ ~IsLeaf(blob.shape, p) => Node(g, p).inClosed

\* compoundBlob.Reader()
NewReader == [leaves |-> 0, cur |-> NoLeaf, eof |-> FALSE, pc |-> "idle", k |-> 0]

\* what the caller of Read and Seek has seen: the bytes returned since the
\* last Seek, the result of the last Read, whether some Read since the last Seek
\* has returned io.EOF, the offset the last Seek was given and what it returned
NoReads == [delivered |-> <<>>, n |-> 0, err |-> "none", eofSeen |-> FALSE,
            seekTo |-> -1, seekRet |-> 0]

\* the generation a Seek would start
NextGen == Cardinality({g \in Gens : trav[g].started}) + 1

\* compoundBlobReader.Seek: curLeaf = nil, a new channel, go getLeaves
SeekReader(c, g) == [c EXCEPT !.cur = NoLeaf, !.leaves = g]
SeekTrav(g) ==
    [trav EXCEPT ![g] = [started |-> TRUE,
                         node |-> [p \in PathsUnder(blob.shape, <<>>) |->
                                      IF p = <<>> THEN WalkNode ELSE NoNode],
                         sent |-> <<>>, failed |-> <<>>]]

\* bytes.Reader.Read on a leaf at offset pos into a buffer of k bytes: the
\* number of bytes copied; none at the end of the leaf, with io.EOF
LeafRead(path, pos, k) ==
    LET left == Len(LeafData(path)) - pos
    IN IF left <= 0 THEN 0 ELSE IF k < left THEN k ELSE left
LeafAtEOF(path, pos) == pos >= Len(LeafData(path))

Returned(n, err, bytes) ==
    [rhist EXCEPT !.delivered = @ \o bytes, !.n = n, !.err = err,
                  !.eofSeen = @ \/ err = "EOF"]

\* Read, lines 41-66: the eof flag, the Seek of a fresh reader, curLeaf
ReadCall(k) ==
    /\ Alive
    /\ cbr.pc = "idle"
    /\ IF cbr.eof
       THEN /\ rhist' = Returned(0, "EOF", <<>>)
            /\ UNCHANGED <<cbr, trav>>
       ELSE LET seek == cbr.leaves = 0
                c == IF seek THEN SeekReader(cbr, NextGen) ELSE cbr
            IN /\ seek => NextGen \in Gens
               /\ trav' = IF seek THEN SeekTrav(NextGen) ELSE trav
               /\ IF c.cur.set /\ ~LeafAtEOF(c.cur.path, c.cur.pos)
                  THEN LET l == LeafRead(c.cur.path, c.cur.pos, k)
                       IN /\ rhist' = Returned(l, "nil",
                                        SubSeq(LeafData(c.cur.path),
                                               c.cur.pos + 1, c.cur.pos + l))
                          /\ cbr' = [c EXCEPT !.cur = NoLeaf]
                  ELSE /\ cbr' = [c EXCEPT !.pc = "range", !.k = k]
                       /\ rhist' = rhist
    /\ UNCHANGED blob
    /\ UNCHANGED storeVars

\* Read, lines 68-79: for blobLeaf := range cbr.leaves, and the end of it
ReadRecv ==
    /\ Alive
    /\ cbr.pc = "range"
    /\ LET top == Node(cbr.leaves, <<>>)
       IN IF top.out # <<>>
          THEN LET leaf == Head(top.out)
                   l == LeafRead(leaf, 0, cbr.k)
               IN /\ trav' = [trav EXCEPT ![cbr.leaves].node[<<>>].out = Tail(@)]
                  /\ IF LeafAtEOF(leaf, 0)
                     THEN /\ cbr' = [cbr EXCEPT !.cur = [set |-> TRUE, path |-> leaf,
                                                         pos |-> 0]]
                          /\ rhist' = rhist
                     ELSE /\ cbr' = [cbr EXCEPT !.cur = [set |-> TRUE, path |-> leaf,
                                                         pos |-> l],
                                                !.pc = "idle", !.k = 0]
                          /\ rhist' = Returned(l, "nil", SubSeq(LeafData(leaf), 1, l))
          ELSE /\ top.outClosed
               /\ trav' = trav
               /\ cbr' = [cbr EXCEPT !.eof = TRUE, !.pc = "idle", !.k = 0]
               /\ rhist' = Returned(0, "nil", <<>>)
    /\ UNCHANGED blob
    /\ UNCHANGED storeVars

\* compoundBlobReader.Seek(offset, whence) called by the user of the reader:
\* neither argument is looked at, the traversal restarts and 0, nil is returned
Seek(offset) ==
    /\ Alive
    /\ cbr.pc = "idle"
    /\ NextGen \in Gens
    /\ cbr' = SeekReader(cbr, NextGen)
    /\ trav' = SeekTrav(NextGen)
    /\ rhist' = [NoReads EXCEPT !.seekTo = offset, !.seekRet = 0]
    /\ UNCHANGED blob
    /\ UNCHANGED storeVars

\* no blob is being read
NoBlob == [shape |-> <<>>, lens |-> [p \in {} |-> 0]]

(***************************************************************************)
(* Initial state: NewFileStore on an empty directory.                      *)
(***************************************************************************)
Init ==
    /\ cache = EmptyDir
    /\ disk = EmptyDir
    /\ fs = NewFileStore(EmptyDir)
    /\ writers = [w \in Writers |-> NoWriter]
    /\ rd = NoReader
    /\ procs = [p \in Procs |-> IdleProc]
    /\ hist = InitHist
    /\ blob = NoBlob
    /\ trav = [g \in Gens |-> NoTrav]
    /\ cbr = NewReader
    /\ rhist = NoReads

\* one caller at a time: no root call is in progress and the reader returned
\* by Get has been read to its end
Sequential == /\ \A p \in Procs : procs[p].pc = "idle"
              /\ rd.open => rd.eof

\* the steps of an UpdateRoot call after its open
UpdateRootSteps(p) ==
    \/ URLock(p) \/ URRead(p) \/ URSeek(p) \/ URTruncate(p) \/ URWrite(p)
    \/ URSyncChunks(p) \/ URSyncRefMap(p) \/ URReturn(p)

RootSteps(p) ==
    \/ UpdateRootSteps(p)
    \/ RootLock(p) \/ RootRead(p)

\* writer slots are handed out in order (the slots are interchangeable)
NextSlot(w) == \A v \in Writers : v < w => writers[v].state # "none"

\* A single caller of Put, the writers and Get, one call after another.
NextStore ==
    \/ Sequential /\ \E w \in Writers : NextSlot(w) /\ Put(w)
    \/ Sequential /\ \E w \in Writers, b \in Bytes : Write(w, <<b>>)
    \/ Sequential /\ \E w \in Writers : Close(w)
    \/ Sequential /\ \E w \in Writers : Ref(w)
    \/ Sequential /\ \E r \in Digests : Get(r)
    \/ \E k \in 1..MaxLen : GetRead(k)

SpecStore == Init /\ [][NextStore]_vars

\* A single caller of Root and UpdateRoot, one call after another.
NextRoot ==
    \/ Sequential /\ \E new \in Refs, last \in Refs : URCall(1, new, last)
    \/ Sequential /\ RootCall(1)
    \/ RootSteps(1)

SpecRoot == Init /\ [][NextRoot]_vars


\* Two processes on one directory: each calls UpdateRoot once, and Root at
\* will.  The root file holds what an earlier UpdateRoot left in it.
InitCAS ==
    /\ \E r \in Refs :
          /\ cache = [EmptyDir EXCEPT !.root = RefString(r)]
          /\ hist = [InitHist EXCEPT !.init = r, !.logical = r]
    /\ disk = EmptyDir
    /\ fs = NewFileStore(EmptyDir)
    /\ writers = [w \in Writers |-> NoWriter]
    /\ rd = NoReader
    /\ procs = [p \in Procs |-> IdleProc]
    /\ blob = NoBlob
    /\ trav = [g \in Gens |-> NoTrav]
    /\ cbr = NewReader
    /\ rhist = NoReads

NextCAS ==
    \/ \E p \in Procs, new \in Refs, last \in Refs :
          ~procs[p].called /\ URCall(p, new, last)
    \/ \E p \in Procs : RootCall(p)
    \/ \E p \in Procs : RootSteps(p)

SpecCAS == InitCAS /\ [][NextCAS]_vars

\* One process that writes a chunk and advances the root once from the value
\* it finds, the OS writing dirty pages back when it likes, and a crash
\* followed by a reopen, after which the process does the same again.
NextCrash ==
    \/ Sequential /\ Put(1)
    \/ Sequential /\ Write(1, <<1>>)
    \/ Sequential /\ Close(1)
    \/ /\ Sequential
       /\ ~procs[1].called
       /\ \E new \in Refs : URCall(1, new, RootValue(cache.root))
    \/ UpdateRootSteps(1)
    \/ \E f \in Files : Writeback(f)
    \/ hist.crashes < MaxCrashes /\ Crash

SpecCrash == Init /\ [][NextCrash]_vars

\* One process that stores chunks and advances the root, ends, and is followed
\* by another that opens the same directory and reads (hist.crashes counts the
\* restarts, clean or not).
NextRestart ==
    \/ /\ hist.crashes = 0
       /\ \/ Sequential /\ \E w \in Writers : NextSlot(w) /\ Put(w)
          \/ Sequential /\ \E w \in Writers, b \in Bytes : Write(w, <<b>>)
          \/ Sequential /\ \E w \in Writers : Close(w)
          \/ /\ Sequential
             /\ ~procs[1].called
             /\ \E new \in Refs : URCall(1, new, RootValue(cache.root))
          \/ UpdateRootSteps(1)
          \/ Sequential /\ Reopen
    \/ /\ hist.crashes > 0
       /\ \/ Sequential /\ \E r \in Digests : Get(r)
          \/ GetRead(MaxLen)

SpecRestart == Init /\ [][NextRestart]_vars

\* Two callers of Put whose Closes run at the same time, step by step.
NextPuts ==
    \/ \E w \in Writers : NextSlot(w) /\ Put(w)
    \/ \E w \in Writers, b \in Bytes : writers[w].pc = "idle" /\ Write(w, <<b>>)
    \/ \E w \in Writers :
          \/ CloseCheck(w) \/ CloseSeek(w) \/ CloseWriteLen(w)
          \/ CloseCopy(w) \/ CloseInsert(w)

SpecPuts == Init /\ [][NextPuts]_vars

\* A Get and the reads of its reader, with Puts and other Gets in between.
NextGets ==
    \/ \E w \in Writers : NextSlot(w) /\ Put(w)
    \/ \E w \in Writers, b \in Bytes : Write(w, <<b>>)
    \/ \E w \in Writers : Close(w)
    \/ \E r \in Digests : (rd.open => rd.eof) /\ Get(r)
    \/ \E r \in Digests : GetElsewhere(r)
    \/ \E k \in 1..MaxLen : GetRead(k)

SpecGets == Init /\ [][NextGets]_vars

\* A reader on a compoundBlob: the goroutines of getLeaves and a caller of Read.
StoreIdle ==
    /\ cache = EmptyDir
    /\ disk = EmptyDir
    /\ fs = NewFileStore(EmptyDir)
    /\ writers = [w \in Writers |-> NoWriter]
    /\ rd = NoReader
    /\ procs = [p \in Procs |-> IdleProc]
    /\ hist = InitHist

UnitLens(t) == [p \in {q \in PathsUnder(t, <<>>) : IsLeaf(t, q)} |-> 1]
AnyLens(t) == [{q \in PathsUnder(t, <<>>) : IsLeaf(t, q)} -> 1..MaxLeafLen]

\* every tree of up to MaxNodes nodes, with leaves of one byte
InitLeaves ==
    /\ StoreIdle
    /\ \E t \in ShapesUpTo(MaxNodes) : blob = [shape |-> t, lens |-> UnitLens(t)]
    /\ trav = [g \in Gens |-> NoTrav]
    /\ cbr = NewReader
    /\ rhist = NoReads

\* every tree of up to MaxReadNodes nodes, with leaves of 1..MaxLeafLen bytes
InitReader ==
    /\ StoreIdle
    /\ \E t \in ShapesUpTo(MaxReadNodes) :
          \E l \in AnyLens(t) : blob = [shape |-> t, lens |-> l]
    /\ trav = [g \in Gens |-> NoTrav]
    /\ cbr = NewReader
    /\ rhist = NoReads

NextReader ==
    \/ \E k \in 1..MaxBuf : ReadCall(k)
    \/ ReadRecv
    \/ \E g \in Gens : \E p \in DOMAIN trav[g].node :
          \/ DerefDone(g, p) \/ LeafSend(g, p) \/ LeafClose(g, p)
          \/ ProdSend(g, p) \/ ProdClose(g, p)
          \/ DrainRecvIn(g, p) \/ DrainRecvCh(g, p) \/ DrainSend(g, p)

\* the same, with a user who also seeks
NextSeek ==
    \/ NextReader
    \/ \E t \in 0..Len(AllBytes) : Seek(t)

\* every tree of up to MaxSeekNodes nodes, with leaves of one byte
InitSeek ==
    /\ StoreIdle
    /\ \E t \in ShapesUpTo(MaxSeekNodes) : blob = [shape |-> t, lens |-> UnitLens(t)]
    /\ trav = [g \in Gens |-> NoTrav]
    /\ cbr = NewReader
    /\ rhist = NoReads

SpecSeek == InitSeek /\ [][NextSeek]_vars

\* a root with 1..MaxFlat leaves of one byte
Flat(n) == [i \in 1..n |-> <<>>]
InitFlat ==
    /\ StoreIdle
    /\ \E n \in 1..MaxFlat : blob = [shape |-> Flat(n), lens |-> UnitLens(Flat(n))]
    /\ trav = [g \in Gens |-> NoTrav]
    /\ cbr = NewReader
    /\ rhist = NoReads

\* a user who seeks at any moment of the traversal under way, whose goroutines
\* go on after it; the traversal started by the last Seek is not followed
NextCancel ==
    \/ Seek(0)
    \/ \E g \in Gens : \E p \in DOMAIN trav[g].node :
          (g # cbr.leaves \/ NextGen \in Gens) /\ TravStep(g, p)

SpecCancel == InitFlat /\ [][NextCancel]_vars

\* a root whose first child is a compound of m leaves, followed by n leaves
Bushy(m, n) == <<Flat(m)>> \o Flat(n)
InitFanOut ==
    /\ StoreIdle
    /\ \E n \in 0..(MaxFlat - 1) :
          blob = [shape |-> Bushy(n + 1, n), lens |-> UnitLens(Bushy(n + 1, n))]
    /\ trav = [g \in Gens |-> NoTrav]
    /\ cbr = NewReader
    /\ rhist = NoReads

\* a chunk source that is slow: a Deref returns only when no goroutine of the
\* traversal can do a channel operation
NextFanOut ==
    \/ \E k \in 1..MaxBuf : ReadCall(k)
    \/ ReadRecv
    \/ \E g \in Gens : \E p \in DOMAIN trav[g].node : ChanStep(g, p)
    \/ /\ ~ENABLED (\E g \in Gens : \E p \in DOMAIN trav[g].node : ChanStep(g, p))
       /\ \E g \in Gens : \E p \in DOMAIN trav[g].node : DerefDone(g, p)

SpecFanOut == InitFanOut /\ [][NextFanOut]_vars

\* the same reader over a chunk source in which a chunk may be missing
NextFail ==
    \/ NextReader
    \/ \E g \in Gens : \E p \in DOMAIN trav[g].node : DerefFail(g, p)

SpecFail == InitReader /\ [][NextFail]_vars

\* every tree of up to MaxDrainNodes nodes and every root of up to MaxFlat
\* leaves, read by a user who goes on calling Read; the Go scheduler runs every
\* goroutine that can run, and every run is finite, so weak fairness of the
\* whole is what it guarantees here
InitDrain ==
    /\ StoreIdle
    /\ \E t \in ShapesUpTo(MaxDrainNodes) \cup {Flat(n) : n \in 1..MaxFlat} :
          blob = [shape |-> t, lens |-> UnitLens(t)]
    /\ trav = [g \in Gens |-> NoTrav]
    /\ cbr = NewReader
    /\ rhist = NoReads

SpecDrain == InitDrain /\ [][NextReader]_vars /\ WF_vars(NextReader)

SpecLeaves == InitLeaves /\ [][NextReader]_vars
SpecReader == InitReader /\ [][NextReader]_vars

(***************************************************************************)
(* C1: sequentially, UpdateRoot(new, expected) returns true exactly when   *)
(* the root before the call equals expected; after true Root() is new,     *)
(* after false Root() is what it was before the call; and a Root() call    *)
(* returns the value the root file holds.                                  *)
(***************************************************************************)
C1_RootCAS ==
    procs[1].pc = "idle" =>
        /\ hist.op = "UpdateRoot" =>
              /\ hist.res \in {"true", "false"}
              /\ (hist.res = "true") <=> (procs[1].before = procs[1].last)
              /\ hist.res = "true" => RootValue(cache.root) = procs[1].new
              /\ hist.res = "false" => RootValue(cache.root) = procs[1].before
        /\ hist.op = "Root" => hist.res = "ok" /\ hist.val = RootValue(cache.root)

\* a second update succeeded on a root that was already set
C1_Witness ==
    /\ procs[1].pc = "idle"
    /\ hist.op = "UpdateRoot"
    /\ hist.res = "true"
    /\ procs[1].before # ZeroRef
    /\ procs[1].new # procs[1].before

(***************************************************************************)
(* C5: two writers that were given the same bytes return the same Ref;     *)
(* the chunks file holds exactly one record for those bytes and the index  *)
(* and its log exactly one entry; a finalize whose hash is already indexed *)
(* leaves the chunks file, the log and the index as they were.             *)
(***************************************************************************)
C5_Dedup ==
    /\ \A w1 \in Writers, w2 \in Writers :
          (/\ hist.fin[w1].ref # NoRef
           /\ hist.fin[w2].ref # NoRef
           /\ hist.fin[w1].refBytes = hist.fin[w2].refBytes)
          => hist.fin[w1].ref = hist.fin[w2].ref
    /\ \A w \in Writers :
          hist.fin[w].done =>
              /\ Count(Payloads(cache.chunks, 0), hist.fin[w].bytes) = 1
              /\ FromHash(hist.fin[w].bytes) \in DOMAIN fs.rm
              /\ Count(LoggedDigests(cache.refMap), FromHash(hist.fin[w].bytes)) = 1
    /\ (/\ hist.op \in {"Close", "Ref"}
        /\ FromHash(writers[hist.w].hashed) \in DOMAIN hist.pre.rm)
       => /\ cache.chunks = hist.pre.chunks
          /\ cache.refMap = hist.pre.refMap
          /\ fs.rm = hist.pre.rm

\* two writers hold the same non-empty bytes and both have returned a Ref
C5_Witness ==
    /\ hist.fin[1].ref # NoRef
    /\ hist.fin[2].ref # NoRef
    /\ hist.fin[1].refBytes = hist.fin[2].refBytes
    /\ hist.fin[1].bytes = hist.fin[1].refBytes
    /\ hist.fin[2].bytes = hist.fin[2].refBytes
    /\ hist.fin[1].bytes # <<>>
    /\ Len(Payloads(cache.chunks, 0)) = 1

(***************************************************************************)
(* C6: every index entry (r -> i) is the offset of a record of the chunks  *)
(* file whose length field is the length of the bytes hashed to r and      *)
(* whose payload is those bytes; a Get reader read to its end has returned *)
(* exactly those bytes.                                                    *)
(***************************************************************************)
C6_RoundTrip ==
    /\ \A r \in DOMAIN fs.rm :
          /\ IsRecordAt(cache.chunks, fs.rm[r])
          /\ LengthAt(cache.chunks, fs.rm[r]) = Len(BytesOf(r))
          /\ PayloadAt(cache.chunks, fs.rm[r]) = BytesOf(r)
    /\ (rd.open /\ rd.eof) => rd.got = BytesOf(rd.ref)

\* a chunk that is not the first record has been read back whole
C6_Witness ==
    /\ rd.open
    /\ rd.eof
    /\ rd.got # <<>>
    /\ fs.rm[rd.ref] > 0
    /\ Cardinality(DOMAIN fs.rm) >= 2

(***************************************************************************)
(* C7: once Close or Ref has returned for a writer, every Write is         *)
(* rejected, every Close changes nothing, and every Ref returns the Ref    *)
(* the first Ref returned.                                                 *)
(***************************************************************************)
C7_Finalized ==
    /\ (hist.op = "Write" /\ hist.was) => hist.res = "misuse"
    /\ (hist.op = "Close" /\ hist.was) => Snapshot = hist.pre
    /\ hist.op = "Ref" => hist.val = hist.fin[hist.w].ref

(***************************************************************************)
(* C8: Get of a Ref that is not in the index returns absent (no reader)    *)
(* and leaves the chunks file, the handle offset, the index and the root   *)
(* as they were.                                                           *)
(***************************************************************************)
C8_GetAbsent ==
    (hist.op = "Get" /\ hist.w \notin DOMAIN hist.pre.rm)
    => /\ hist.res = "absent"
       /\ ~rd.open
       /\ Snapshot = hist.pre

\* an absent Ref was asked of a store that holds chunks and has been read
C8_Witness ==
    /\ hist.op = "Get"
    /\ hist.res = "absent"
    /\ hist.w \notin DOMAIN fs.rm
    /\ Cardinality(DOMAIN fs.rm) >= 1
    /\ fs.pos > 0


(***************************************************************************)
(* C2 as amended: two processes call UpdateRoot(R2, R1) and                *)
(* UpdateRoot(R3, R1) on a store whose root is R1, with R2 # R3 and        *)
(* neither equal to R1; when both have returned, exactly one returned true *)
(* and Root() is the new value of that call.                               *)
(***************************************************************************)
BothReturned == \A p \in Procs : procs[p].called /\ procs[p].pc = "idle"

CASScenario ==
    /\ BothReturned
    /\ procs[1].last = hist.init
    /\ procs[2].last = hist.init
    /\ procs[1].new # procs[2].new

ExactlyOneWins ==
    /\ procs[1].ret # procs[2].ret
    /\ \A p \in Procs : procs[p].ret => RootValue(cache.root) = procs[p].new

\* C2, amended: with R2 and R3 both different from R1, exactly one call wins
C2_OneWinner ==
    (/\ CASScenario
     /\ procs[1].new # hist.init
     /\ procs[2].new # hist.init)
    => ExactlyOneWins

\* C2 as stated: only R2 # R3 is asked of the arguments
C2_AsStated == CASScenario => ExactlyOneWins

\* both calls ran on a non-zero root, overlapping, and the second caller won
C2_Witness ==
    /\ CASScenario
    /\ hist.init # ZeroRef
    /\ procs[1].new # hist.init
    /\ procs[2].new # hist.init
    /\ procs[2].ret
    /\ ~procs[1].ret
    /\ procs[1].before = hist.init
    /\ procs[2].before = hist.init

(***************************************************************************)
(* C3: whenever the root file names a root written by UpdateRoot, the      *)
(* record and the index entry of every chunk Put before that call are on   *)
(* disk.                                                                   *)
(***************************************************************************)
DurablyStored(d) ==
    LET m == readRefMap(disk.refMap, EmptyMap)
    IN /\ d \in DOMAIN m
       /\ IsRecordAt(disk.chunks, m[d])
       /\ PayloadAt(disk.chunks, m[d]) = BytesOf(d)

\* C3: every chunk Put before the UpdateRoot that wrote the root is durable
C3_PutBeforeRoot == \A d \in hist.rootDeps : DurablyStored(d)

(***************************************************************************)
(* C4: after UpdateRoot returned true, a crash and reopen leave Root()     *)
(* equal to the last committed value, and Get finds every chunk Put before *)
(* that call.                                                              *)
(***************************************************************************)
C4_DurableCommit ==
    (hist.op = "Crash" /\ hist.committed.root # NoRef)
    => /\ RootValue(cache.root) = hist.committed.root
       /\ \A d \in hist.committed.deps : Retrievable(d)


(***************************************************************************)
(* C9: the leaves sent on the output channel of getLeaves are, in order, a *)
(* prefix of the depth-first, left-to-right leaves of the tree, and the    *)
(* whole of it once the channel is closed; what is still in the channel is *)
(* the tail of what was sent.                                              *)
(***************************************************************************)
C9_Order ==
    \A g \in Gens :
        trav[g].started =>
            /\ IsPrefix(trav[g].sent, AllLeaves)
            /\ Node(g, <<>>).outClosed => trav[g].sent = AllLeaves
            /\ LET q == Node(g, <<>>).out
               IN q = SubSeq(trav[g].sent, Len(trav[g].sent) - Len(q) + 1,
                             Len(trav[g].sent))

\* a later leaf is already resolved and waiting in its channel while the leaf
\* that must be sent next is still in Deref, below a nested compound
C9_Witness ==
    /\ trav[1].started
    /\ Len(AllLeaves) >= 3
    /\ Len(trav[1].sent) >= 1
    /\ Len(trav[1].sent) < Len(AllLeaves)
    /\ LET nxt == AllLeaves[Len(trav[1].sent) + 1]
           lst == AllLeaves[Len(AllLeaves)]
       IN /\ Len(nxt) >= 2
          /\ Node(1, nxt).task = "deref"
          /\ Node(1, lst).task = "done"

(***************************************************************************)
(* C10: the bytes returned by the Read calls so far are a prefix of the    *)
(* in-order concatenation of the leaf bytes, and all of it once a Read has *)
(* returned EOF.                                                           *)
(***************************************************************************)
C10_RoundTrip ==
    /\ IsPrefix(rhist.delivered, AllBytes)
    /\ rhist.err = "EOF" => rhist.delivered = AllBytes

(***************************************************************************)
(* C11: no Read (the buffers are never empty) returns 0 bytes with a nil   *)
(* error, and once a Read has returned EOF the last Read returned 0 bytes  *)
(* and EOF.                                                                *)
(***************************************************************************)
C11_EndOfStream ==
    /\ ~(rhist.err = "nil" /\ rhist.n = 0)
    /\ rhist.eofSeen => (rhist.err = "EOF" /\ rhist.n = 0)

(***************************************************************************)
(* C12: Seek(t, Start) returns t, and the bytes the Reads after it return  *)
(* are a prefix of bytes [t, L) of the blob, all of them once a Read has   *)
(* returned EOF.                                                           *)
(***************************************************************************)
C12_Seek ==
    rhist.seekTo # -1 =>
        LET rest == SubSeq(AllBytes, rhist.seekTo + 1, Len(AllBytes))
        IN /\ rhist.seekRet = rhist.seekTo
           /\ IsPrefix(rhist.delivered, rest)
           /\ rhist.eofSeen => rhist.delivered = rest

(***************************************************************************)
(* C13: with Closes that interleave step by step, every index entry is the *)
(* offset of the length field of the record that holds that chunk's bytes, *)
(* and no two index entries hold the same offset.                          *)
(***************************************************************************)
C13_IndexMatchesFile ==
    /\ \A r \in DOMAIN fs.rm :
          /\ IsRecordAt(cache.chunks, fs.rm[r])
          /\ LengthAt(cache.chunks, fs.rm[r]) = Len(BytesOf(r))
          /\ PayloadAt(cache.chunks, fs.rm[r]) = BytesOf(r)
    /\ \A r1, r2 \in DOMAIN fs.rm : r1 # r2 => fs.rm[r1] # fs.rm[r2]

(***************************************************************************)
(* C14: a reader returned by Get(r) and read to its end has returned the   *)
(* bytes stored for r, whatever Gets and Put finalizations ran in between. *)
(***************************************************************************)
C14_GetSafe == (rd.open /\ rd.eof) => rd.got = BytesOf(rd.ref)

(***************************************************************************)
(* C15: a Root() call returns a root the store held at some moment of the  *)
(* call: the root last written when the call started or one written by an *)
(* UpdateRoot during the call; never the content of a truncated file, and  *)
(* never a root replaced before the call started.                          *)
(***************************************************************************)
C15_RootNotTorn ==
    hist.op = "Root" => (hist.res = "ok" /\ hist.val \in hist.allowed)

\* Root() was called between the truncate and the write of an UpdateRoot that
\* replaced a non-zero root, and returned the new root
C15_Witness ==
    /\ hist.op = "Root"
    /\ hist.torn
    /\ hist.init # ZeroRef
    /\ hist.val # hist.init
    /\ hist.val = hist.logical

(***************************************************************************)
(* C16: the goroutines of a traversal that Seek has abandoned have all     *)
(* returned, or one of them can still take a step: none is left blocked on *)
(* a channel that nobody will ever receive from.                           *)
(***************************************************************************)
C16_Cancelled ==
    \A g \in Gens :
        (trav[g].started /\ g # cbr.leaves) =>
            \/ Terminated(g)
            \/ ENABLED (\E p \in DOMAIN trav[g].node : TravStep(g, p))

(***************************************************************************)
(* C17: at most 8 Deref calls of a traversal have started and not yet      *)
(* returned, whatever the shape of the tree.                               *)
(***************************************************************************)
C17_DerefCap == \A g \in Gens : Cardinality(Outstanding(g)) <= 8

(***************************************************************************)
(* C18: once the Deref of a child has failed, the reader has returned a    *)
(* read error or can still go on towards returning one (it is not left     *)
(* hanging), and when the error has been returned the bytes of the leaves  *)
(* before that child have been delivered.                                  *)
(***************************************************************************)
LeavesBefore(p) ==
    SubSeq(AllLeaves, 1, DfsIndex(Head(LeavesUnder(blob.shape, p))) - 1)

C18_ErrorSurfaces ==
    \A g \in Gens :
        trav[g].failed # <<>> =>
            /\ rhist.err = "error" \/ ENABLED NextFail
            /\ rhist.err = "error" =>
                   rhist.delivered = Concat(LeavesBefore(trav[g].failed))

(***************************************************************************)
(* C19: after a clean restart the index replayed from the refMap log is    *)
(* the index before the restart, every Ref stored before is found by Get   *)
(* with its bytes, and Root() is the last committed root.                  *)
(***************************************************************************)
C19_IndexSurvives ==
    /\ (hist.op = "Reopen" /\ Sequential) =>
          /\ fs.rm = hist.pre.rm
          /\ \A d \in DOMAIN hist.pre.rm : Retrievable(d)
          /\ hist.committed.root # NoRef => RootValue(cache.root) = hist.committed.root
    /\ (hist.crashes > 0 /\ hist.op = "Get" /\ hist.w \in DOMAIN fs.rm) =>
          hist.res = "reader"
    /\ (hist.crashes > 0 /\ rd.open /\ rd.eof) => rd.got = BytesOf(rd.ref)

\* after the restart of a store with a committed non-zero root, a chunk that
\* is not the first record has been read back whole
C19_Witness ==
    /\ hist.crashes > 0
    /\ hist.committed.root \notin {NoRef, ZeroRef}
    /\ rd.open
    /\ rd.eof
    /\ rd.got # <<>>
    /\ fs.rm[rd.ref] > 0

(***************************************************************************)
(* C20: when the user goes on calling Read and never seeks, eventually a   *)
(* Read has reported the end of the stream and every goroutine of the      *)
(* traversal has returned with its channels closed.                        *)
(***************************************************************************)
C20_Drains == <>(rhist.eofSeen /\ Terminated(1))

\* a tree with more leaves than the output channel holds has been read to the
\* end and all its goroutines have returned
C20_Witness ==
    /\ rhist.eofSeen
    /\ Terminated(1)
    /\ Len(AllLeaves) > LeavesCap

====
